---- MODULE Spec2Model ----
(***************************************************************************)
(* Voice-Powered-Flowchart-Generator: the Flask handlers of app.py and the *)
(* pipeline of backend.py, as request threads stepping over a shared       *)
(* filesystem.                                                             *)
(*                                                                         *)
(* Text is modelled as a sequence of tokens (a Name or a document), a path *)
(* as a record [dir, stem, suffix] whose dir is a sequence of Names, and   *)
(* the filesystem as a function from the paths of the existing files to    *)
(* their contents.                                                         *)
(***************************************************************************)
EXTENDS Integers, Sequences, FiniteSets, TLC

\* ------------------------------------------------------------------ bounds
\* How many session identifiers uuid.uuid4() hands out in a run.
MaxSessions == 2

\* How many requests the server is sent in a run.
MaxRequests == 2

\* How long an address handed to sanitize_email_for_folder is.
MaxEmailLen == 3

\* The request threads of the (threaded) Flask server.
Workers == {"w1", "w2"}

\* ------------------------------------------------------- backend.py: config
TEMP_DIR == << <<"temp_files">> >>
SESSION_DIR == << <<"session_files">> >>
OUTPUT_DIR == << <<"outputs">> >>
TEMPLATE_DIR == << <<"flowchart_templates">> >>

\* ------------------------------------------------------------- pathlib / os
DotDot == <<"..">>

\* The resolution by the operating system of ".." segments in a directory.
RECURSIVE Normalize(_)
Normalize(segs) ==
    IF segs = <<>> THEN <<>>
    ELSE LET front == Normalize(SubSeq(segs, 1, Len(segs) - 1))
             last == segs[Len(segs)]
         IN  IF last = DotDot /\ front # <<>> /\ front[Len(front)] # DotDot
             THEN SubSeq(front, 1, Len(front) - 1)
             ELSE Append(front, last)

\* base / f"{id}.{suffix}", where id is the text split at its "/" separators.
PathJoin(base, id, suffix) ==
    [dir |-> Normalize(base \o SubSeq(id, 1, Len(id) - 1)),
     stem |-> id[Len(id)],
     suffix |-> suffix]

NoPath == [dir |-> <<>>, stem |-> <<>>, suffix |-> ""]
NoFile == <<"<no file>">>

Exists(files, p) == p \in DOMAIN files
ReadText(files, p) == IF p \in DOMAIN files THEN files[p] ELSE NoFile
WriteText(files, p, text) ==
    [q \in DOMAIN files \cup {p} |-> IF q = p THEN text ELSE files[q]]
Unlink(files, p) == [q \in DOMAIN files \ {p} |-> files[q]]

\* ------------------------------------------- backend.py: helper functions
SafeChars ==
    {"a", "b", "c", "d", "e", "f", "g", "h", "i", "j", "k", "l", "m",
     "n", "o", "p", "q", "r", "s", "t", "u", "v", "w", "x", "y", "z",
     "A", "B", "C", "D", "E", "F", "G", "H", "I", "J", "K", "L", "M",
     "N", "O", "P", "Q", "R", "S", "T", "U", "V", "W", "X", "Y", "Z",
     "0", "1", "2", "3", "4", "5", "6", "7", "8", "9", "_", "-"}

\* Mutation: the characters outside the class are dropped, not replaced.
sanitize_email_drop(email) ==
    SelectSeq(email, LAMBDA ch : ch \in SafeChars)

sanitize_email_for_folder(email) ==
    [i \in 1..Len(email) |-> IF email[i] \in SafeChars THEN email[i] ELSE "_"]

None == <<"<None>">>
Raise == <<"<exception>">>

\* str.strip(): whitespace tokens off both ends.
RECURSIVE LStrip(_)
LStrip(s) == IF s # <<>> /\ s[1] = " " THEN LStrip(Tail(s)) ELSE s
RECURSIVE RStrip(_)
RStrip(s) ==
    IF s # <<>> /\ s[Len(s)] = " " THEN RStrip(SubSeq(s, 1, Len(s) - 1)) ELSE s
Strip(s) == RStrip(LStrip(s))

\* str.replace(tok, ""); the code fences are the tokens <fence dot> and <fence>.
RECURSIVE Remove(_, _)
Remove(s, tok) ==
    IF s = <<>> THEN <<>>
    ELSE IF s[1] = tok THEN Remove(Tail(s), tok)
    ELSE <<s[1]>> \o Remove(Tail(s), tok)

CleanResponse(text) == Strip(Remove(Remove(Strip(text), "<fence dot>"), "<fence>"))

\* What MODEL.generate_content can do: raise, or answer with some text.
RawResponses ==
    { <<"<fence dot>", "A", "<fence>">>, <<" ", "B", " ">>, <<"<fence dot>", " ", "<fence>">> }
GeminiOutcomes == RawResponses \cup {Raise}

generate_initial_dot_code(outcome) ==
    IF outcome = Raise THEN None ELSE CleanResponse(outcome)

modify_dot_code(current_dot_code_, outcome) ==
    IF outcome = Raise THEN None ELSE CleanResponse(outcome)

\* Mutation: the test is "dot_code is None", so empty text counts as text.
TruthyNotNone(text) == text # None

\* The truth value Python gives a str | None.
Truthy(text) == text # None /\ text # <<>>

\* What Graphviz and PyMuPDF make of their input file.
Png(dot_text) == <<"PNG">> \o dot_text
Pdf(image) == <<"PDF">> \o image

\* Mutation: every request renders into one shared temporary image.
TempPngPathShared(sf) == [dir |-> TEMP_DIR, stem |-> <<"flowchart">>, suffix |-> "png"]

\* Mutation: the output document has one fixed name.
OutputPdfFilenameFixed(sf) == [stem |-> <<"flowchart">>, suffix |-> "pdf"]

DotFileOf(output_path) == [dir |-> TEMP_DIR, stem |-> output_path.stem, suffix |-> "dot"]
TempPngPath(sf) == [dir |-> TEMP_DIR, stem |-> sf.stem, suffix |-> "png"]
OutputPdfFilename(sf) == [stem |-> <<"flowchart_">> \o sf.stem, suffix |-> "pdf"]
OutputPdfPath(sf) ==
    [dir |-> OUTPUT_DIR, stem |-> OutputPdfFilename(sf).stem,
     suffix |-> OutputPdfFilename(sf).suffix]
NoFilename == [stem |-> <<>>, suffix |-> ""]

\* ------------------------------------------------------------------- inputs
Emails == { <<"a", "@", "b">>, <<"c">> }
Prompt == <<"add a step">>
TemplateName == <<"simple_process">>
\* The one template of the catalog holds a graph the generator can also produce.
TemplateText == <<"A">>

\* Mutation: every session is given the same identifier.
UuidReused(n) == <<"1">>

\* str(uuid.uuid4()): the n-th identifier handed out, never one handed out before.
Uuid(n) == <<ToString(n)>>

Has(json, key) == key \in DOMAIN json


\* The JSON bodies a client can post to each endpoint: complete ones, and ones
\* that lack a required field.
CreateBodies ==
    {[user_email |-> e, prompt |-> Prompt] : e \in Emails}
        \cup {[user_email |-> <<"c">>], [prompt |-> Prompt]}

\* Session ids a client can name: the ones handed out, one that never was, and
\* ids holding "/" and ".." that lead into another folder.
SessionIds ==
    {<<Uuid(n)>> : n \in 1..MaxSessions}
        \cup {<< <<"not-a-real-id">> >>}
        \cup {<<DotDot, sanitize_email_for_folder(<<"a", "@", "b">>), Uuid(1)>>}
        \cup {<<DotDot, DotDot, TEMPLATE_DIR[1], TemplateName>>}

AddBodies ==
    {[user_email |-> e, session_id |-> s, prompt |-> Prompt] :
        e \in Emails, s \in SessionIds}
        \cup {[user_email |-> <<"c">>, prompt |-> Prompt],
              [user_email |-> <<"c">>, session_id |-> <<Uuid(1)>>]}

TemplateIds ==
    {<<TemplateName>>,
     <<DotDot, DotDot, <<"etc">>, <<"passwd">> >>,
     <<DotDot, SESSION_DIR[1], sanitize_email_for_folder(<<"a", "@", "b">>), Uuid(1)>>}

LoadTemplateBodies ==
    {[user_email |-> e, template_id |-> t] : e \in Emails, t \in TemplateIds}
        \cup {[user_email |-> <<"c">>], [template_id |-> <<TemplateName>>]}

\* -------------------------------------------------------------------- state
VARIABLES
    fs,                \* the files: path -> content
    dirs,              \* the folders made under SESSION_DIR
    uuidCount,         \* how many uuid4 values were handed out
    served,            \* how many requests have come in
    pc,                \* per thread: where its request stands
    handler,           \* per thread: the endpoint it serves
    request,           \* per thread: request.json
    session_file,      \* per thread: the local session_file
    dot_code,          \* per thread: the local dot_code
    current_dot_code,  \* per thread: the text read for modify_dot_code
    response,          \* per thread: what the handler returned
    touched,           \* history: the files this request wrote or removed
    calls,             \* history: the stages this request invoked, in order
    before,            \* history: content of session_file when the request began
    overlapped,        \* history: another request ran while this one did
    address,           \* sanitize_email_for_folder on its own: its argument
    user_folder_name,  \* ... its result
    folder_name_again  \* ... the result of applying it to its result

locals == <<handler, request, session_file, dot_code, current_dot_code, response>>
history == <<touched, calls, before, overlapped>>
sanitizeVars == <<address, user_folder_name, folder_name_again>>
vars == <<fs, dirs, uuidCount, served, pc, locals, history, sanitizeVars>>

NoRequest == [none |-> TRUE]
NoResponse ==
    [status |-> 0, error |-> "", session_id |-> <<>>, output_filename |-> NoFilename]

TemplateFile == [dir |-> TEMPLATE_DIR, stem |-> TemplateName, suffix |-> "dot"]

InitServer ==
    /\ fs = WriteText(<<>>, TemplateFile, TemplateText)
    /\ dirs = {}
    /\ uuidCount = 0
    /\ served = 0
    /\ pc = [w \in Workers |-> "idle"]
    /\ handler = [w \in Workers |-> "none"]
    /\ request = [w \in Workers |-> NoRequest]
    /\ session_file = [w \in Workers |-> NoPath]
    /\ dot_code = [w \in Workers |-> None]
    /\ current_dot_code = [w \in Workers |-> None]
    /\ response = [w \in Workers |-> NoResponse]
    /\ touched = [w \in Workers |-> {}]
    /\ calls = [w \in Workers |-> <<>>]
    /\ before = [w \in Workers |-> NoFile]
    /\ overlapped = [w \in Workers |-> FALSE]

Init ==
    /\ InitServer
    /\ address = <<>>
    /\ user_folder_name = None
    /\ folder_name_again = None

Running(w) == pc[w] \notin {"idle", "done"}

\* The server hands a request to its first free thread: w comes before v.
FirstFree(w, v) == w = "w1" /\ v = "w2"

\* A request begins on thread w: it overlaps every request still running.
Begin(w, name, json, sf) ==
    /\ served < MaxRequests
    /\ \A v \in Workers : pc[v] # "done"
    /\ served' = served + 1
    /\ \A v \in Workers : v = w \/ pc[v] # "idle" \/ FirstFree(w, v)
    /\ handler' = [handler EXCEPT ![w] = name]
    /\ request' = [request EXCEPT ![w] = json]
    /\ before' = [before EXCEPT ![w] = ReadText(fs, sf)]
    /\ overlapped' =
         [v \in Workers |->
            IF v = w THEN \E u \in Workers \ {w} : Running(u)
            ELSE overlapped[v] \/ Running(v)]

\* jsonify(...), status: the handler returns.
Return(w, status, error, sid, filename) ==
    /\ pc' = [pc EXCEPT ![w] = "done"]
    /\ response' = [response EXCEPT ![w] =
         [status |-> status, error |-> error, session_id |-> sid,
          output_filename |-> filename]]


\* The error texts the handlers return.
MsgBadRequest == "Request body must include the required fields"
MsgSessionNotFound == "Session ID not found for user"
MsgTemplateNotFound == "Template not found."
MsgGeneration == "Failed to generate flowchart logic."
MsgConvert == "Failed to convert flowchart to an image."
\* Mutation: the embed failure answers with the text of the conversion failure.
MsgEmbedAsConvert == "Failed to convert flowchart to an image."
MsgEmbed == "Failed to embed image in PDF."

\* ------------------------------------------------------ app.py: the handlers
\* GET /flowchart/templates: the ids of the catalog.
list_templates ==
    {p.stem : p \in {q \in DOMAIN fs : q.dir = TEMPLATE_DIR /\ q.suffix = "dot"}}

UserSessionDir(user_email) ==
    SESSION_DIR \o <<sanitize_email_for_folder(user_email)>>

\* Mutation: the folder of the user is made before the body is validated.
handle_create_request_mkdir_first(w, json) ==
    /\ pc[w] = "idle"
    /\ UNCHANGED sanitizeVars
    /\ Has(json, "user_email")
    /\ dirs' = dirs \cup {UserSessionDir(json.user_email)}
    /\ IF ~Has(json, "prompt")
       THEN /\ Begin(w, "create", json, NoPath)
            /\ Return(w, 400, MsgBadRequest, <<>>, NoFilename)
            /\ UNCHANGED <<fs, uuidCount, session_file, dot_code,
                           current_dot_code, touched, calls>>
       ELSE /\ uuidCount < MaxSessions
            /\ LET session_id == Uuid(uuidCount + 1)
                   sf == PathJoin(UserSessionDir(json.user_email), <<session_id>>, "dot")
               IN  /\ Begin(w, "create", json, sf)
                   /\ uuidCount' = uuidCount + 1
                   /\ session_file' = [session_file EXCEPT ![w] = sf]
                   /\ pc' = [pc EXCEPT ![w] = "generate"]
            /\ UNCHANGED <<fs, dot_code, current_dot_code, response, touched, calls>>

\* POST /flowchart/create, up to the call of process_flowchart_request.
handle_create_request(w, json) ==
    /\ pc[w] = "idle"
    /\ UNCHANGED sanitizeVars
    /\ IF ~(Has(json, "user_email") /\ Has(json, "prompt"))
       THEN /\ Begin(w, "create", json, NoPath)
            /\ Return(w, 400, MsgBadRequest, <<>>, NoFilename)
            /\ UNCHANGED <<fs, dirs, uuidCount, session_file, dot_code,
                           current_dot_code, touched, calls>>
       ELSE /\ uuidCount < MaxSessions
            /\ LET user_session_dir == UserSessionDir(json.user_email)
                   session_id == Uuid(uuidCount + 1)
                   sf == PathJoin(user_session_dir, <<session_id>>, "dot")
               IN  /\ Begin(w, "create", json, sf)
                   /\ dirs' = dirs \cup {user_session_dir}
                   /\ uuidCount' = uuidCount + 1
                   /\ session_file' = [session_file EXCEPT ![w] = sf]
                   /\ pc' = [pc EXCEPT ![w] = "generate"]
            /\ UNCHANGED <<fs, dot_code, current_dot_code, response, touched, calls>>

\* POST /flowchart/add, up to the call of process_flowchart_request.
handle_add_request(w, json) ==
    /\ pc[w] = "idle"
    /\ UNCHANGED sanitizeVars
    /\ IF ~(Has(json, "user_email") /\ Has(json, "session_id") /\ Has(json, "prompt"))
       THEN /\ Begin(w, "add", json, NoPath)
            /\ Return(w, 400, MsgBadRequest, <<>>, NoFilename)
            /\ UNCHANGED session_file
       ELSE LET sf == PathJoin(UserSessionDir(json.user_email), json.session_id, "dot")
            IN  /\ Begin(w, "add", json, sf)
                /\ session_file' = [session_file EXCEPT ![w] = sf]
                /\ IF ~Exists(fs, sf)
                   THEN Return(w, 404, MsgSessionNotFound, <<>>, NoFilename)
                   ELSE /\ pc' = [pc EXCEPT ![w] = "generate"]
                        /\ UNCHANGED response
    /\ UNCHANGED <<fs, dirs, uuidCount, dot_code, current_dot_code, touched, calls>>

\* POST /flowchart/load_template, up to the call of process_dot_code.
handle_load_template_request(w, json) ==
    /\ pc[w] = "idle"
    /\ UNCHANGED sanitizeVars
    /\ IF ~(Has(json, "user_email") /\ Has(json, "template_id"))
       THEN /\ Begin(w, "load_template", json, NoPath)
            /\ Return(w, 400, MsgBadRequest, <<>>, NoFilename)
            /\ UNCHANGED <<dirs, uuidCount, session_file, dot_code, calls>>
       ELSE LET template_file == PathJoin(TEMPLATE_DIR, json.template_id, "dot")
            IN  IF ~Exists(fs, template_file)
                THEN /\ Begin(w, "load_template", json, NoPath)
                     /\ Return(w, 404, MsgTemplateNotFound, <<>>, NoFilename)
                     /\ UNCHANGED <<dirs, uuidCount, session_file, dot_code, calls>>
                ELSE /\ uuidCount < MaxSessions
                     /\ LET user_session_dir == UserSessionDir(json.user_email)
                            session_id == Uuid(uuidCount + 1)
                            sf == PathJoin(user_session_dir, <<session_id>>, "dot")
                        IN  /\ Begin(w, "load_template", json, sf)
                            /\ dot_code' = [dot_code EXCEPT ![w] = ReadText(fs, template_file)]
                            /\ calls' = [calls EXCEPT ![w] = Append(@, "read_template")]
                            /\ dirs' = dirs \cup {user_session_dir}
                            /\ uuidCount' = uuidCount + 1
                            /\ session_file' = [session_file EXCEPT ![w] = sf]
                            /\ pc' = [pc EXCEPT ![w] = "persist"]
                     /\ UNCHANGED response
    /\ UNCHANGED <<fs, current_dot_code, touched>>

\* ------------------------------------------- backend.py: the shared pipeline
\* Mutation: process_flowchart_request hands whatever the generator returned to
\* process_dot_code, without the test "if not dot_code".
process_flowchart_request_unchecked(w, outcome) ==
    /\ pc[w] = "generate"
    /\ UNCHANGED sanitizeVars
    /\ \A v \in Workers : pc[v] # "done"
    /\ LET is_new == handler[w] = "create"
           current == IF is_new THEN None ELSE ReadText(fs, session_file[w])
           text == IF is_new THEN generate_initial_dot_code(outcome)
                   ELSE modify_dot_code(current, outcome)
       IN  /\ ~is_new => Exists(fs, session_file[w])
           /\ current_dot_code' = [current_dot_code EXCEPT ![w] = current]
           /\ dot_code' = [dot_code EXCEPT ![w] = text]
           /\ calls' = [calls EXCEPT ![w] =
                Append(@, IF is_new THEN "generate_initial" ELSE "generate_modification")]
           /\ pc' = [pc EXCEPT ![w] = "persist"]
           /\ UNCHANGED response
    /\ UNCHANGED <<fs, dirs, uuidCount, served, handler, request, session_file,
                   touched, before, overlapped>>

\* process_flowchart_request: the read of the current text (is_new = False), the
\* generator call, and the test of its result.
process_flowchart_request(w, outcome) ==
    /\ pc[w] = "generate"
    /\ UNCHANGED sanitizeVars
    /\ \A v \in Workers : pc[v] # "done"
    /\ LET is_new == handler[w] = "create"
           current == IF is_new THEN None ELSE ReadText(fs, session_file[w])
           text == IF is_new THEN generate_initial_dot_code(outcome)
                   ELSE modify_dot_code(current, outcome)
       IN  /\ ~is_new => Exists(fs, session_file[w])
           /\ current_dot_code' = [current_dot_code EXCEPT ![w] = current]
           /\ dot_code' = [dot_code EXCEPT ![w] = text]
           /\ calls' = [calls EXCEPT ![w] =
                Append(@, IF is_new THEN "generate_initial" ELSE "generate_modification")]
           /\ IF ~Truthy(text)
              THEN Return(w, 500, MsgGeneration, <<>>, NoFilename)
              ELSE /\ pc' = [pc EXCEPT ![w] = "persist"]
                   /\ UNCHANGED response
    /\ UNCHANGED <<fs, dirs, uuidCount, served, handler, request, session_file,
                   touched, before, overlapped>>

\* Mutation: the text is stored with a line break added to it.
PersistDotCodeNewline(w) ==
    /\ pc[w] = "persist"
    /\ UNCHANGED sanitizeVars
    /\ \A v \in Workers : pc[v] # "done"
    /\ fs' = WriteText(fs, session_file[w], Append(dot_code[w], "\n"))
    /\ touched' = [touched EXCEPT ![w] = @ \cup {session_file[w]}]
    /\ calls' = [calls EXCEPT ![w] = Append(@, "persist")]
    /\ pc' = [pc EXCEPT ![w] = "write_dot"]
    /\ UNCHANGED <<dirs, uuidCount, served, locals, before, overlapped>>

\* process_dot_code: session_file.write_text(dot_code)
PersistDotCode(w) ==
    /\ pc[w] = "persist"
    /\ UNCHANGED sanitizeVars
    /\ \A v \in Workers : pc[v] # "done"
    /\ fs' = WriteText(fs, session_file[w], dot_code[w])
    /\ touched' = [touched EXCEPT ![w] = @ \cup {session_file[w]}]
    /\ calls' = [calls EXCEPT ![w] = Append(@, "persist")]
    /\ pc' = [pc EXCEPT ![w] = "write_dot"]
    /\ UNCHANGED <<dirs, uuidCount, served, locals, before, overlapped>>

\* Mutation: the image is rendered from the text read before the change.
WriteDotFileStale(w) ==
    /\ pc[w] = "write_dot"
    /\ UNCHANGED sanitizeVars
    /\ \A v \in Workers : pc[v] # "done"
    /\ LET dot_file == DotFileOf(TempPngPath(session_file[w]))
       IN  /\ fs' = WriteText(fs, dot_file, current_dot_code[w])
           /\ touched' = [touched EXCEPT ![w] = @ \cup {dot_file}]
    /\ calls' = [calls EXCEPT ![w] = Append(@, "render_to_image")]
    /\ pc' = [pc EXCEPT ![w] = "run_dot"]
    /\ UNCHANGED <<dirs, uuidCount, served, locals, before, overlapped>>

\* convert_dot_to_png: dot_file.write_text(dot_code)
WriteDotFile(w) ==
    /\ pc[w] = "write_dot"
    /\ UNCHANGED sanitizeVars
    /\ \A v \in Workers : pc[v] # "done"
    /\ LET dot_file == DotFileOf(TempPngPath(session_file[w]))
       IN  /\ fs' = WriteText(fs, dot_file, dot_code[w])
           /\ touched' = [touched EXCEPT ![w] = @ \cup {dot_file}]
    /\ calls' = [calls EXCEPT ![w] = Append(@, "render_to_image")]
    /\ pc' = [pc EXCEPT ![w] = "run_dot"]
    /\ UNCHANGED <<dirs, uuidCount, served, locals, before, overlapped>>

\* Mutation: a failed conversion takes the session document back.
RunGraphvizRollback(w, outcome) ==
    /\ pc[w] = "run_dot"
    /\ UNCHANGED sanitizeVars
    /\ \A v \in Workers : pc[v] # "done"
    /\ LET output_path == TempPngPath(session_file[w])
           dot_file == DotFileOf(output_path)
           ok == outcome = "ok" /\ Exists(fs, dot_file)
           rendered == IF ok THEN WriteText(fs, output_path, Png(fs[dot_file]))
                       ELSE Unlink(fs, session_file[w])
       IN  /\ outcome = "ok" => Exists(fs, dot_file)
           /\ fs' = Unlink(rendered, dot_file)
           /\ touched' = [touched EXCEPT ![w] =
                @ \cup {dot_file} \cup (IF ok THEN {output_path} ELSE {session_file[w]})]
           /\ IF ok
              THEN /\ pc' = [pc EXCEPT ![w] = "embed"]
                   /\ UNCHANGED response
              ELSE Return(w, 500, MsgConvert, <<>>, NoFilename)
    /\ UNCHANGED <<dirs, uuidCount, served, handler, request, session_file, dot_code,
                   current_dot_code, calls, before, overlapped>>

\* Mutation: a failed conversion removes the output document of the session.
RunGraphvizDropsOutput(w, outcome) ==
    /\ pc[w] = "run_dot"
    /\ UNCHANGED sanitizeVars
    /\ \A v \in Workers : pc[v] # "done"
    /\ LET output_path == TempPngPath(session_file[w])
           dot_file == DotFileOf(output_path)
           ok == outcome = "ok" /\ Exists(fs, dot_file)
           rendered == IF ok THEN WriteText(fs, output_path, Png(fs[dot_file]))
                       ELSE Unlink(fs, OutputPdfPath(session_file[w]))
       IN  /\ outcome = "ok" => Exists(fs, dot_file)
           /\ fs' = Unlink(rendered, dot_file)
           /\ touched' = [touched EXCEPT ![w] =
                @ \cup {dot_file}
                  \cup (IF ok THEN {output_path} ELSE {OutputPdfPath(session_file[w])})]
           /\ IF ok
              THEN /\ pc' = [pc EXCEPT ![w] = "embed"]
                   /\ UNCHANGED response
              ELSE Return(w, 500, MsgConvert, <<>>, NoFilename)
    /\ UNCHANGED <<dirs, uuidCount, served, handler, request, session_file, dot_code,
                   current_dot_code, calls, before, overlapped>>

\* Mutation: the intermediate .dot file is removed only after a conversion that
\* succeeded.
RunGraphvizNoFinally(w, outcome) ==
    /\ pc[w] = "run_dot"
    /\ UNCHANGED sanitizeVars
    /\ \A v \in Workers : pc[v] # "done"
    /\ LET output_path == TempPngPath(session_file[w])
           dot_file == DotFileOf(output_path)
           ok == outcome = "ok" /\ Exists(fs, dot_file)
       IN  /\ outcome = "ok" => Exists(fs, dot_file)
           /\ fs' = IF ok
                    THEN Unlink(WriteText(fs, output_path, Png(fs[dot_file])), dot_file)
                    ELSE fs
           /\ touched' = [touched EXCEPT ![w] =
                @ \cup (IF ok THEN {dot_file, output_path} ELSE {})]
           /\ IF ok
              THEN /\ pc' = [pc EXCEPT ![w] = "embed"]
                   /\ UNCHANGED response
              ELSE Return(w, 500, MsgConvert, <<>>, NoFilename)
    /\ UNCHANGED <<dirs, uuidCount, served, handler, request, session_file, dot_code,
                   current_dot_code, calls, before, overlapped>>

\* convert_dot_to_png: subprocess.run of Graphviz, the finally clause, and the
\* test of the result in process_dot_code.
RunGraphviz(w, outcome) ==
    /\ pc[w] = "run_dot"
    /\ UNCHANGED sanitizeVars
    /\ \A v \in Workers : pc[v] # "done"
    /\ LET output_path == TempPngPath(session_file[w])
           dot_file == DotFileOf(output_path)
           ok == outcome = "ok" /\ Exists(fs, dot_file)
           rendered == IF ok THEN WriteText(fs, output_path, Png(fs[dot_file])) ELSE fs
       IN  /\ outcome = "ok" => Exists(fs, dot_file)
           /\ fs' = Unlink(rendered, dot_file)
           /\ touched' = [touched EXCEPT ![w] =
                @ \cup {dot_file} \cup (IF ok THEN {output_path} ELSE {})]
           /\ IF ok
              THEN /\ pc' = [pc EXCEPT ![w] = "embed"]
                   /\ UNCHANGED response
              ELSE Return(w, 500, MsgConvert, <<>>, NoFilename)
    /\ UNCHANGED <<dirs, uuidCount, served, handler, request, session_file, dot_code,
                   current_dot_code, calls, before, overlapped>>

\* embed_image_in_pdf, and the test of its result in process_dot_code.
EmbedImageInPdf(w, outcome) ==
    /\ pc[w] = "embed"
    /\ UNCHANGED sanitizeVars
    /\ \A v \in Workers : pc[v] # "done"
    /\ LET image_path == TempPngPath(session_file[w])
           output_pdf_path == OutputPdfPath(session_file[w])
       IN  /\ outcome = "ok" => Exists(fs, image_path)
           /\ calls' = [calls EXCEPT ![w] = Append(@, "embed_into_document")]
           /\ IF outcome = "ok"
              THEN /\ fs' = WriteText(fs, output_pdf_path, Pdf(fs[image_path]))
                   /\ touched' = [touched EXCEPT ![w] = @ \cup {output_pdf_path}]
                   /\ pc' = [pc EXCEPT ![w] = "cleanup"]
                   /\ UNCHANGED response
              ELSE /\ Return(w, 500, MsgEmbed, <<>>, NoFilename)
                   /\ UNCHANGED <<fs, touched>>
    /\ UNCHANGED <<dirs, uuidCount, served, handler, request, session_file, dot_code,
                   current_dot_code, before, overlapped>>

\* Mutation: the clean-up removes the session document, not the temporary image.
FinishProcessDotCodeUnlinkSession(w) ==
    /\ pc[w] = "cleanup"
    /\ UNCHANGED sanitizeVars
    /\ \A v \in Workers : pc[v] # "done"
    /\ fs' = Unlink(fs, session_file[w])
    /\ touched' = [touched EXCEPT ![w] = @ \cup {session_file[w]}]
    /\ Return(w, 200, "", session_file[w].stem, OutputPdfFilename(session_file[w]))
    /\ UNCHANGED <<dirs, uuidCount, served, handler, request, session_file, dot_code,
                   current_dot_code, calls, before, overlapped>>

\* process_dot_code: the unlink of the temporary image and the return; then the
\* success reply of the handler.
FinishProcessDotCode(w) ==
    /\ pc[w] = "cleanup"
    /\ UNCHANGED sanitizeVars
    /\ \A v \in Workers : pc[v] # "done"
    /\ LET temp_png_path == TempPngPath(session_file[w])
       IN  /\ fs' = Unlink(fs, temp_png_path)
           /\ touched' = [touched EXCEPT ![w] = @ \cup {temp_png_path}]
    /\ Return(w, 200, "", session_file[w].stem, OutputPdfFilename(session_file[w]))
    /\ UNCHANGED <<dirs, uuidCount, served, handler, request, session_file, dot_code,
                   current_dot_code, calls, before, overlapped>>

\* The reply goes out and the thread is free for the next request. Nothing else
\* reads what this resets, so it runs right after the handler returned.
Respond(w) ==
    /\ pc[w] = "done"
    /\ UNCHANGED sanitizeVars
    /\ pc' = [pc EXCEPT ![w] = "idle"]
    /\ handler' = [handler EXCEPT ![w] = "none"]
    /\ request' = [request EXCEPT ![w] = NoRequest]
    /\ session_file' = [session_file EXCEPT ![w] = NoPath]
    /\ dot_code' = [dot_code EXCEPT ![w] = None]
    /\ current_dot_code' = [current_dot_code EXCEPT ![w] = None]
    /\ response' = [response EXCEPT ![w] = NoResponse]
    /\ touched' = [touched EXCEPT ![w] = {}]
    /\ calls' = [calls EXCEPT ![w] = <<>>]
    /\ before' = [before EXCEPT ![w] = NoFile]
    /\ overlapped' = [overlapped EXCEPT ![w] = FALSE]
    /\ UNCHANGED <<fs, dirs, uuidCount, served>>

GraphvizOutcomes == {"ok", "FileNotFoundError", "CalledProcessError"}
EmbedOutcomes == {"ok", "failed"}

Next ==
    \/ \E w \in Workers, json \in CreateBodies : handle_create_request(w, json)
    \/ \E w \in Workers, json \in AddBodies : handle_add_request(w, json)
    \/ \E w \in Workers, json \in LoadTemplateBodies : handle_load_template_request(w, json)
    \/ \E w \in Workers, outcome \in GeminiOutcomes : process_flowchart_request(w, outcome)
    \/ \E w \in Workers : PersistDotCode(w)
    \/ \E w \in Workers : WriteDotFile(w)
    \/ \E w \in Workers, outcome \in GraphvizOutcomes : RunGraphviz(w, outcome)
    \/ \E w \in Workers, outcome \in EmbedOutcomes : EmbedImageInPdf(w, outcome)
    \/ \E w \in Workers : FinishProcessDotCode(w)
    \/ \E w \in Workers : Respond(w)

Spec == Init /\ [][Next]_vars

\* ------------------------------ sanitize_email_for_folder taken on its own
\* The characters an address is drawn from: letters of both cases, a digit,
\* the two safe signs, and signs outside the class.
Alphabet == {"a", "Z", "7", "_", "-", "@", ".", " ", "/"}

Addresses == UNION {[1..n -> Alphabet] : n \in 0..MaxEmailLen}

InitSanitize ==
    /\ InitServer
    /\ address \in Addresses
    /\ user_folder_name = None
    /\ folder_name_again = None

\* user_folder_name = backend.sanitize_email_for_folder(user_email)
Sanitize ==
    /\ user_folder_name = None
    /\ user_folder_name' = sanitize_email_for_folder(address)
    /\ UNCHANGED <<fs, dirs, uuidCount, served, pc, locals, history,
                   address, folder_name_again>>

\* The folder name goes through the function once more.
SanitizeAgain ==
    /\ user_folder_name # None
    /\ folder_name_again = None
    /\ folder_name_again' = sanitize_email_for_folder(user_folder_name)
    /\ UNCHANGED <<fs, dirs, uuidCount, served, pc, locals, history,
                   address, user_folder_name>>

NextSanitize == Sanitize \/ SanitizeAgain

SpecSanitize == InitSanitize /\ [][NextSanitize]_vars


\* ------------------------------ two requests writing one session document
\* Path.write_text is open(mode "w") and then write: the open creates the file
\* or cuts it to no length, and the text goes to the start of the file when the
\* handle is flushed. Between the two another thread can do either.
OpenForWriting(files, p) == WriteText(files, p, <<>>)

WriteAtStart(files, p, text) ==
    IF p \in DOMAIN files
    THEN [files EXCEPT ![p] = text \o SubSeq(@, Len(text) + 1, Len(@))]
    ELSE files

\* The generator can also answer with a longer graph.
RaceOutcomes == GeminiOutcomes \cup { <<" ", "B", "C", " ">> }

\* The session document of the first session of the first address, and the
\* append requests that name it.
FirstSessionFile == PathJoin(UserSessionDir(<<"a", "@", "b">>), <<Uuid(1)>>, "dot")

RaceBodies ==
    {json \in AddBodies :
        /\ Has(json, "session_id")
        /\ PathJoin(UserSessionDir(json.user_email), json.session_id, "dot")
              = FirstSessionFile}

\* The server after it served one create of the first address: the session
\* document and its output document are on disk, no request is in progress,
\* and the requests are counted from here.
InitRace ==
    /\ fs = WriteText(WriteText(WriteText(<<>>, TemplateFile, TemplateText),
                                FirstSessionFile, <<"A">>),
                      OutputPdfPath(FirstSessionFile), Pdf(Png(<<"A">>)))
    /\ dirs = {UserSessionDir(<<"a", "@", "b">>)}
    /\ uuidCount = 1
    /\ served = 0
    /\ pc = [w \in Workers |-> "idle"]
    /\ handler = [w \in Workers |-> "none"]
    /\ request = [w \in Workers |-> NoRequest]
    /\ session_file = [w \in Workers |-> NoPath]
    /\ dot_code = [w \in Workers |-> None]
    /\ current_dot_code = [w \in Workers |-> None]
    /\ response = [w \in Workers |-> NoResponse]
    /\ touched = [w \in Workers |-> {}]
    /\ calls = [w \in Workers |-> <<>>]
    /\ before = [w \in Workers |-> NoFile]
    /\ overlapped = [w \in Workers |-> FALSE]
    /\ address = <<>>
    /\ user_folder_name = None
    /\ folder_name_again = None

\* process_dot_code: session_file.write_text(dot_code), the open.
OpenSessionFile(w) ==
    /\ pc[w] = "persist"
    /\ UNCHANGED sanitizeVars
    /\ \A v \in Workers : pc[v] # "done"
    /\ fs' = OpenForWriting(fs, session_file[w])
    /\ touched' = [touched EXCEPT ![w] = @ \cup {session_file[w]}]
    /\ calls' = [calls EXCEPT ![w] = Append(@, "persist")]
    /\ pc' = [pc EXCEPT ![w] = "persist_write"]
    /\ UNCHANGED <<dirs, uuidCount, served, locals, before, overlapped>>

\* process_dot_code: session_file.write_text(dot_code), the write and the close.
WriteSessionFile(w) ==
    /\ pc[w] = "persist_write"
    /\ UNCHANGED sanitizeVars
    /\ \A v \in Workers : pc[v] # "done"
    /\ fs' = WriteAtStart(fs, session_file[w], dot_code[w])
    /\ pc' = [pc EXCEPT ![w] = "write_dot"]
    /\ UNCHANGED <<dirs, uuidCount, served, locals, history>>

\* Appends to that session only, with the write of the session document in its
\* two steps.
NextRace ==
    \/ \E w \in Workers, json \in RaceBodies : handle_add_request(w, json)
    \/ \E w \in Workers, outcome \in RaceOutcomes : process_flowchart_request(w, outcome)
    \/ \E w \in Workers : OpenSessionFile(w)
    \/ \E w \in Workers : WriteSessionFile(w)
    \/ \E w \in Workers : WriteDotFile(w)
    \/ \E w \in Workers, outcome \in GraphvizOutcomes : RunGraphviz(w, outcome)
    \/ \E w \in Workers, outcome \in EmbedOutcomes : EmbedImageInPdf(w, outcome)
    \/ \E w \in Workers : FinishProcessDotCode(w)
    \/ \E w \in Workers : Respond(w)

SpecRace == InitRace /\ [][NextRace]_vars

\* ------------------------------------------------------------------- claims
Range(seq) == {seq[i] : i \in 1..Len(seq)}
NoText(text) == text = None \/ text = <<>>
RenderFailure(w) == response[w].status = 500 /\ response[w].error \in {MsgConvert, MsgEmbed}

\* C1: when generate_modification yields no text (it failed, or its text is
\* empty) during an append, the append returns GenerationFailed, the request has
\* written no file, and (no other request running meanwhile) the stored session
\* document is the one stored when the request began.
C1_AppendPreservesOnFailure ==
    \A w \in Workers :
        (/\ pc[w] = "done"
         /\ handler[w] = "add"
         /\ "generate_modification" \in Range(calls[w])
         /\ NoText(dot_code[w]))
        => /\ response[w].status = 500
           /\ response[w].error = MsgGeneration
           /\ touched[w] = {}
           /\ ~overlapped[w] => ReadText(fs, session_file[w]) = before[w]

\* An append whose generator answered with empty text has returned; the session
\* document it was asked to change is still there.
C1_Witness ==
    \E w \in Workers :
        /\ pc[w] = "done"
        /\ handler[w] = "add"
        /\ calls[w] = <<"generate_modification">>
        /\ dot_code[w] = <<>>
        /\ ~overlapped[w]
        /\ before[w] \notin {NoFile, None}
        /\ ReadText(fs, session_file[w]) = before[w]

\* C2: once the render stage has returned, with any outcome, no temporary image
\* of that request remains in temporary storage.
C2_TempImageRemoved ==
    \A w \in Workers :
        (/\ pc[w] = "done"
         /\ ~overlapped[w]
         /\ "render_to_image" \in Range(calls[w]))
        => [dir |-> TEMP_DIR, stem |-> session_file[w].stem, suffix |-> "png"]
              \notin DOMAIN fs

\* C3: load_template with an id outside the catalog of list_templates returns
\* TemplateNotFound, reads no document and creates no session.
C3_UnknownTemplateRejected ==
    \A w \in Workers :
        (/\ handler[w] = "load_template"
         /\ Has(request[w], "user_email")
         /\ Has(request[w], "template_id")
         /\ request[w].template_id \notin {<<t>> : t \in list_templates})
        => /\ pc[w] = "done"
           /\ response[w].status = 404
           /\ response[w].error = MsgTemplateNotFound
           /\ session_file[w] = NoPath
           /\ calls[w] = <<>>
           /\ touched[w] = {}

\* C4: when the render stage fails after the document was persisted, the newly
\* persisted document stays stored; and an append that runs alone passes the
\* document stored when it began to generate_modification.
C4_RenderFailureKeepsDocument ==
    \A w \in Workers :
        /\ (pc[w] = "done" /\ RenderFailure(w) /\ ~overlapped[w])
              => /\ "persist" \in Range(calls[w])
                 /\ ReadText(fs, session_file[w]) = dot_code[w]
        /\ (handler[w] = "add" /\ ~overlapped[w]
                /\ "generate_modification" \in Range(calls[w]))
              => /\ current_dot_code[w] = before[w]
                 /\ before[w] # NoFile

\* An append has failed in the render stage; the stored document is the new
\* text of that append, which differs from the one stored before it.
C4_Witness ==
    \E w \in Workers :
        /\ pc[w] = "done"
        /\ handler[w] = "add"
        /\ RenderFailure(w)
        /\ ~overlapped[w]
        /\ dot_code[w] # before[w]
        /\ current_dot_code[w] = before[w]
        /\ ReadText(fs, session_file[w]) = dot_code[w]

\* C5: when generate_initial yields no text, create returns GenerationFailed, no
\* document exists for the session id it allocated, the request has written no
\* file, and no stage after the generator was started.
C5_FailedCreateLeavesNoTrace ==
    \A w \in Workers :
        (/\ pc[w] = "done"
         /\ handler[w] = "create"
         /\ "generate_initial" \in Range(calls[w])
         /\ NoText(dot_code[w]))
        => /\ response[w].status = 500
           /\ response[w].error = MsgGeneration
           /\ session_file[w] \notin DOMAIN fs
           /\ touched[w] = {}
           /\ calls[w] = <<"generate_initial">>

\* A create whose generator raised has returned.
C5_Witness ==
    \E w \in Workers :
        /\ pc[w] = "done"
        /\ handler[w] = "create"
        /\ calls[w] = <<"generate_initial">>
        /\ dot_code[w] = None
        /\ session_file[w] # NoPath
        /\ session_file[w] \notin DOMAIN fs


\* C6: after a successful create or append that ran alone, the stored document is
\* exactly the text the generator returned in that call: the cleaned answer of
\* the model, which is what the request holds as dot_code.
C6_StoredIsGenerated ==
    \A w \in Workers :
        (/\ pc[w] = "done"
         /\ response[w].status = 200
         /\ handler[w] \in {"create", "add"}
         /\ ~overlapped[w])
        => /\ ReadText(fs, session_file[w]) = dot_code[w]
           /\ dot_code[w] \in {CleanResponse(r) : r \in RawResponses}
           /\ calls[w][1] \in {"generate_initial", "generate_modification"}

\* A create has succeeded, and so has an append that changed the text.
C6_Witness ==
    \E w \in Workers :
        /\ pc[w] = "done"
        /\ response[w].status = 200
        /\ handler[w] = "add"
        /\ ~overlapped[w]
        /\ before[w] # dot_code[w]
        /\ ReadText(fs, session_file[w]) = dot_code[w]

\* A document is stored under the namespace of the caller for this session id:
\* the file <session_id>.dot lies in the folder of the namespace.
StoredUnderNamespace(user_email, session_id) ==
    /\ Len(session_id) = 1
    /\ [dir |-> SESSION_DIR \o <<sanitize_email_for_folder(user_email)>>,
        stem |-> session_id[1], suffix |-> "dot"] \in DOMAIN fs

\* C7: an append on a session id for which no document is stored under the
\* namespace of the caller returns SessionNotFound, calls no generator and writes
\* no file.
C7_AppendUnknownSessionRejected ==
    \A w \in Workers :
        (/\ handler[w] = "add"
         /\ Has(request[w], "user_email")
         /\ Has(request[w], "session_id")
         /\ Has(request[w], "prompt")
         /\ ~StoredUnderNamespace(request[w].user_email, request[w].session_id))
        => /\ pc[w] = "done"
           /\ response[w].status = 404
           /\ response[w].error = MsgSessionNotFound
           /\ calls[w] = <<>>
           /\ touched[w] = {}

SessionDocuments(files) ==
    {p \in DOMAIN files : p.dir # <<>> /\ p.dir[1] = SESSION_DIR[1] /\ p.suffix = "dot"}
TemplateDocuments(files) ==
    {p \in DOMAIN files : p.dir = TEMPLATE_DIR /\ p.suffix = "dot"}
OutputDocuments(files) == {p \in DOMAIN files : p.dir = OUTPUT_DIR}

FilesOfSession(sf) ==
    {sf,
     [dir |-> TEMP_DIR, stem |-> sf.stem, suffix |-> "dot"],
     [dir |-> TEMP_DIR, stem |-> sf.stem, suffix |-> "png"],
     [dir |-> OUTPUT_DIR, stem |-> <<"flowchart_">> \o sf.stem, suffix |-> "pdf"]}

C9_Disjoint ==
    \A p, q \in SessionDocuments(fs) :
        p # q => FilesOfSession(p) \cap FilesOfSession(q) = {}

C9_Step ==
    \A p \in DOMAIN fs \cup DOMAIN fs' :
        ReadText(fs, p) # ReadText(fs', p)
        => \E w \in Workers : pc[w] # pc'[w] /\ p \in FilesOfSession(session_file[w])

\* C9: sessions with different ids have no file in common, and every step of a
\* request changes only files of the session the request works on; so under any
\* interleaving the files of S1 are written by the requests on S1 alone.
C9_SessionIndependence == []C9_Disjoint /\ [][C9_Step]_vars

\* Two requests run at the same time on two different sessions, and each has
\* written files.
C9_Witness ==
    \E w, v \in Workers :
        /\ w # v
        /\ Running(w) /\ Running(v)
        /\ session_file[w] # session_file[v]
        /\ {session_file[w], session_file[v]} \subseteq SessionDocuments(fs)
        /\ [dir |-> TEMP_DIR, stem |-> session_file[w].stem, suffix |-> "png"] \in touched[w]
        /\ [dir |-> TEMP_DIR, stem |-> session_file[v].stem, suffix |-> "dot"] \in touched[v]

C10_Step ==
    /\ \A p \in SessionDocuments(fs) : p \in SessionDocuments(fs')
    /\ \A p \in SessionDocuments(fs') \ SessionDocuments(fs) :
          \E w \in Workers :
              /\ pc[w] # pc'[w]
              /\ handler[w] \in {"create", "load_template"}
              /\ calls[w] \in {<<"generate_initial">>, <<"read_template">>}
              /\ ~NoText(dot_code[w])
              /\ session_file[w] = p

\* C10: a session document comes into existence only in a step of a create or a
\* template-load that has passed its generate or load stage (never in an append),
\* and a session document that exists still exists after every step.
C10_SessionLifecycle == [][C10_Step]_vars

\* An append on an existing session has failed, and the session is still there.
C10_Witness ==
    \E w \in Workers :
        /\ pc[w] = "done"
        /\ handler[w] = "add"
        /\ response[w].status = 500
        /\ session_file[w] \in SessionDocuments(fs)

\* The stages of the pipeline in their order, for the endpoint a request came to.
Stages(name) ==
    << CASE name = "create" -> "generate_initial"
         [] name = "add" -> "generate_modification"
         [] OTHER -> "read_template",
       "persist", "render_to_image", "embed_into_document" >>

\* C11: a request invokes the stages generate-or-load, persist, render_to_image,
\* embed_into_document in this order and each at most once; after a stage failed
\* no later stage is invoked; and the error returned names the stage that
\* failed, the three texts being different from one another.
C11_FailFastSingleAttempt ==
    \A w \in Workers :
        /\ Len(calls[w]) <= 4
        /\ calls[w] = SubSeq(Stages(handler[w]), 1, Len(calls[w]))
        /\ pc[w] = "done" =>
              /\ response[w].status = 200 => Len(calls[w]) = 4
              /\ response[w].status \in {400, 404} => calls[w] = <<>>
              /\ response[w].status = 500 =>
                    /\ Len(calls[w]) \in {1, 3, 4}
                    /\ response[w].error =
                         CASE Len(calls[w]) = 1 -> "Failed to generate flowchart logic."
                           [] Len(calls[w]) = 3 -> "Failed to convert flowchart to an image."
                           [] OTHER -> "Failed to embed image in PDF."

\* A request whose embed stage failed has returned: it went through all four
\* stages once and answers with the text of the embed failure.
C11_Witness ==
    \E w \in Workers :
        /\ pc[w] = "done"
        /\ response[w].status = 500
        /\ calls[w] = Stages(handler[w])
        /\ response[w].error = "Failed to embed image in PDF."

\* C12: the folder name sanitize_email_for_folder makes of an address has the
\* length of the address, holds only letters, digits, "_" and "-", keeps every
\* such character of the address in its place and has "_" wherever the address
\* has another character; the same address gives the same name, and the name
\* of a name is the name itself.
C12_NormalizeSafeAndIdempotent ==
    /\ user_folder_name # None =>
          /\ Len(user_folder_name) = Len(address)
          /\ \A i \in 1..Len(user_folder_name) :
                /\ user_folder_name[i] \in SafeChars
                /\ address[i] \in SafeChars => user_folder_name[i] = address[i]
                /\ address[i] \notin SafeChars => user_folder_name[i] = "_"
          /\ user_folder_name = sanitize_email_for_folder(address)
    /\ folder_name_again # None => folder_name_again = user_folder_name

\* An address with a character outside the class between two inside it went
\* through the function twice.
C12_Witness ==
    /\ address = <<"a", "@", "Z">>
    /\ user_folder_name = <<"a", "_", "Z">>
    /\ folder_name_again = <<"a", "_", "Z">>

\* Both threads serve an append to one session document, each got text from
\* the generator, and each has finished its write of the document.
BothPersisted(w, v) ==
    /\ w # v
    /\ handler[w] = "add" /\ handler[v] = "add"
    /\ session_file[w] = session_file[v]
    /\ {pc[w], pc[v]} \subseteq {"write_dot", "run_dot", "embed", "cleanup", "done"}

\* C13: when two appends to one session run at the same time and both get text
\* from the generator, the document stored once both have written is the text
\* of one of the two: never empty, never a mix, never the text from before.
C13_LastWriterWins ==
    \A w, v \in Workers :
        BothPersisted(w, v) =>
            ReadText(fs, session_file[w]) \in {dot_code[w], dot_code[v]}

\* C14: an append for an address reads and writes no session document but one
\* in the folder of that address, whatever text it gives as session_id.
C14_NamespaceScoped ==
    \A w \in Workers :
        (/\ handler[w] = "add"
         /\ calls[w] # <<>>)
        => /\ session_file[w].dir =
                << <<"session_files">>, sanitize_email_for_folder(request[w].user_email) >>
           /\ \A p \in touched[w] :
                p.suffix = "dot" /\ p.dir # << <<"temp_files">> >>
                    => p.dir = << <<"session_files">>,
                                 sanitize_email_for_folder(request[w].user_email) >>

\* C15: when a create, append or load_template that ran alone has succeeded,
\* the document stored for its session is the text that call persisted, and
\* the output document of the session is the rendering of that stored text.
C15_ArtifactReflectsStored ==
    \A w \in Workers :
        (/\ pc[w] = "done"
         /\ response[w].status = 200
         /\ ~overlapped[w])
        => LET output == [dir |-> << <<"outputs">> >>,
                          stem |-> <<"flowchart_">> \o session_file[w].stem,
                          suffix |-> "pdf"]
           IN  /\ ReadText(fs, session_file[w]) = dot_code[w]
               /\ ReadText(fs, output) = <<"PDF", "PNG">> \o ReadText(fs, session_file[w])

\* An append that ran alone changed the text of its session and succeeded: the
\* output document shows the new text, not the one from before.
C15_Witness ==
    \E w \in Workers :
        /\ pc[w] = "done"
        /\ handler[w] = "add"
        /\ response[w].status = 200
        /\ ~overlapped[w]
        /\ before[w] = <<"A">>
        /\ ReadText(fs, session_file[w]) = <<"B">>
        /\ ReadText(fs, OutputPdfPath(session_file[w])) = <<"PDF", "PNG", "B">>

\* C16: a successful load_template of a template of the catalog calls neither
\* generator; it stores its text under a session id no document was stored
\* under before, and writes no template and no other session document; having
\* run alone, what it stored is the text of the template.
C16_TemplateLoadBypassesGenerator ==
    \A w \in Workers :
        (/\ pc[w] = "done"
         /\ handler[w] = "load_template"
         /\ response[w].status = 200
         /\ request[w].template_id \in {<<t>> : t \in list_templates})
        => LET template_file == [dir |-> << <<"flowchart_templates">> >>,
                                 stem |-> request[w].template_id[1],
                                 suffix |-> "dot"]
           IN  /\ calls[w] =
                    <<"read_template", "persist", "render_to_image", "embed_into_document">>
               /\ before[w] = NoFile
               /\ session_file[w].stem = response[w].session_id
               /\ session_file[w].dir =
                    << <<"session_files">>,
                       sanitize_email_for_folder(request[w].user_email) >>
               /\ touched[w] \cap (SessionDocuments(fs) \cup TemplateDocuments(fs))
                    = {session_file[w]}
               /\ ~overlapped[w] =>
                    /\ ReadText(fs, session_file[w]) = ReadText(fs, template_file)
                    /\ ReadText(fs, session_file[w]) = dot_code[w]

\* A template of the catalog was loaded with success while the session document
\* of an earlier session was on disk; that document is not among the files the
\* load wrote.
C16_Witness ==
    \E w \in Workers :
        /\ pc[w] = "done"
        /\ handler[w] = "load_template"
        /\ response[w].status = 200
        /\ request[w].template_id = <<TemplateName>>
        /\ ~overlapped[w]
        /\ ReadText(fs, session_file[w]) = TemplateText
        /\ \E p \in SessionDocuments(fs) : p # session_file[w] /\ p \notin touched[w]

\* C17: an append that ends in SessionNotFound, GenerationFailed or
\* RenderFailed has written and removed nothing in the output folder: an output
\* document produced before is as it was, and none was made.
C17_FailedAppendKeepsOutput ==
    \A w \in Workers :
        (/\ pc[w] = "done"
         /\ handler[w] = "add"
         /\ \/ response[w].status = 404
            \/ /\ response[w].status = 500
               /\ response[w].error \in {"Failed to generate flowchart logic.",
                                         "Failed to convert flowchart to an image."})
        => /\ \A p \in touched[w] : p.dir # << <<"outputs">> >>
           /\ "embed_into_document" \notin Range(calls[w])

\* An append that ran alone stored a new text and then failed to render it:
\* the output document of the session still shows the text from before.
C17_Witness ==
    \E w \in Workers :
        /\ pc[w] = "done"
        /\ handler[w] = "add"
        /\ response[w].error = "Failed to convert flowchart to an image."
        /\ ~overlapped[w]
        /\ before[w] = <<"A">>
        /\ ReadText(fs, session_file[w]) = <<"B">>
        /\ ReadText(fs, OutputPdfPath(session_file[w])) = <<"PDF", "PNG", "A">>

\* The fields each endpoint requires of the body.
Required(name) ==
    CASE name = "create" -> {"user_email", "prompt"}
      [] name = "add" -> {"user_email", "session_id", "prompt"}
      [] name = "load_template" -> {"user_email", "template_id"}
      [] OTHER -> {}

C18_Rejected ==
    \A w \in Workers :
        (pc[w] = "done" /\ response[w].status = 400)
        => /\ calls[w] = <<>>
           /\ touched[w] = {}
           /\ session_file[w] = NoPath

C18_Step ==
    \A w \in Workers :
        (/\ pc[w] = "idle"
         /\ pc'[w] # "idle"
         /\ Required(handler'[w]) \ DOMAIN request'[w] # {})
        => /\ pc'[w] = "done"
           /\ response'[w].status = 400
           /\ fs' = fs
           /\ dirs' = dirs
           /\ uuidCount' = uuidCount
           /\ calls'[w] = <<>>
           /\ touched'[w] = {}

\* C18: a create, append or load_template whose body lacks a required field is
\* answered with the validation error in the step that takes it up: no file and
\* no folder is made or changed, no session id is taken, and neither a
\* generator nor a stage of the render pipeline is called.
C18_ValidationErrorChangesNothing == []C18_Rejected /\ [][C18_Step]_vars

\* A create without an instruction was turned down on a server that had served
\* nothing before: there is no folder and no file but the template.
C18_Witness ==
    \E w \in Workers :
        /\ pc[w] = "done"
        /\ handler[w] = "create"
        /\ response[w].status = 400
        /\ "prompt" \notin DOMAIN request[w]
        /\ dirs = {}
        /\ DOMAIN fs = {TemplateFile}

\* The intermediate file convert_dot_to_png writes for the request of w.
IntermediateDot(w) ==
    [dir |-> << <<"temp_files">> >>, stem |-> session_file[w].stem, suffix |-> "dot"]

C19_Removed ==
    \A w \in Workers :
        (/\ pc[w] \in {"embed", "cleanup", "done"}
         /\ "render_to_image" \in Range(calls[w])
         /\ ~overlapped[w])
        => IntermediateDot(w) \notin DOMAIN fs

C19_Step ==
    \A w \in Workers :
        (pc[w] = "run_dot" /\ pc'[w] # "run_dot")
        => /\ [dir |-> << <<"temp_files">> >>, stem |-> session_file[w].stem,
               suffix |-> "dot"] \notin DOMAIN fs'
           /\ \/ pc'[w] = "embed"
              \/ pc'[w] = "done" /\ response'[w].status = 500

\* C19: when convert_dot_to_png returns, be it True, or False because Graphviz
\* is missing, or False because Graphviz rejected the text, the intermediate
\* .dot file it wrote is gone from temporary storage, and stays gone for the
\* rest of a request that runs alone.
C19_IntermediateDotRemoved == []C19_Removed /\ [][C19_Step]_vars

\* A conversion failed and the request returned: the intermediate file was
\* written by this request and is no longer there.
C19_Witness ==
    \E w \in Workers :
        /\ pc[w] = "done"
        /\ response[w].error = "Failed to convert flowchart to an image."
        /\ IntermediateDot(w) \in touched[w]
        /\ IntermediateDot(w) \notin DOMAIN fs

====
